---------------------------- MODULE Spec2Model ----------------------------
(***************************************************************************)
(* Multi-account session lifecycle manager (the React session Provider of  *)
(* src/unnamed/part_001): roster of accounts, active protocol client,      *)
(* credential-refresh callback, persistence flush and cross-window         *)
(* reconciliation.                                                         *)
(*                                                                         *)
(* Every window (instance) of the application runs the same Provider and   *)
(* shares one persistence store.  Each React state cell of the Provider is *)
(* a variable indexed by the instance.  A handler's state updates are      *)
(* batched by React into one render, and the persistence effect of that    *)
(* render runs with the state of that render: every action below ends      *)
(* with that render and effect (operator Commit).                          *)
(*                                                                         *)
(* Account records keep the fields the lifecycle reads: did, handle and    *)
(* the two credentials; service, email and emailConfirmed are carried      *)
(* through unchanged by the code and are left out.                         *)
(***************************************************************************)
EXTENDS Integers, Sequences, FiniteSets, TLC

(***************************************************************************)
(* Bounds and input domains                                                *)
(***************************************************************************)

\* Number of caller operations, credential events and external writes in a run,
\* after the cold-start resumeSession.
MaxSteps == 2

Instances == {1, 2}

\* The pending asynchronous operations of one instance: two started by callers,
\* one started by the persisted.onUpdate subscription.
CallerSlots == {1, 2}
UpdateSlot == 3
Slots == CallerSlots \cup {UpdateSlot}

Undef == "undefined"
NoDid == "none"

DidA == "did:plc:A"
DidB == "did:plc:B"
Dids == {DidA, DidB}

\* The handle the service reports for an identity: A is an ordinary account,
\* B an internal test account.
HandleOf(did) == IF did = DidA THEN "alice.ex.social" ELSE "bob.test"

Account(did, access, refresh) ==
    [did |-> did, handle |-> HandleOf(did), accessJwt |-> access, refreshJwt |-> refresh]

\* `undefined` where the code holds an optional account or session.
NoAccount == [did |-> NoDid, handle |-> "", accessJwt |-> Undef, refreshJwt |-> Undef]

Present(a) == a.did # NoDid

\* JavaScript truthiness of an optional string.
Truthy(s) == s # Undef /\ s # ""

\* Credential pairs the service issues.
IssuedPairs == {<<"J1", "R1">>, <<"J2", "R2">>}

\* Sessions the protocol client can hold for an identity after a successful
\* login, resume or refresh.
ServerSessions(did) == {Account(did, p[1], p[2]) : p \in IssuedPairs}

\* Sessions of a newly created account: an active one, or a deactivated one
\* (its access token carries the deactivation scope).
CreatedSessions(did) == {Account(did, "J1", "R1"), Account(did, "JD", "R1")}

AuthSessions(op, did) == IF op = "createAccount" THEN CreatedSessions(did) ELSE ServerSessions(did)

(***************************************************************************)
(* Token inspection                                                        *)
(***************************************************************************)

\* Date.now(), in milliseconds.
DateNow == 2000

\* jwtDecode: the claims of a token, or a thrown InvalidTokenError (ok = FALSE).
\* exp = 0 stands for a token without an exp claim.
jwtDecode(token) ==
    CASE token = "J1" -> [ok |-> TRUE, exp |-> 3, scope |-> "com.atproto.access"]
      [] token = "J2" -> [ok |-> TRUE, exp |-> 3, scope |-> "com.atproto.access"]
      [] token = "JD" -> [ok |-> TRUE, exp |-> 3, scope |-> "com.atproto.deactivated"]
      [] token = "JX" -> [ok |-> TRUE, exp |-> 1, scope |-> "com.atproto.access"]
      [] token = "JN" -> [ok |-> TRUE, exp |-> 0, scope |-> ""]
      [] OTHER        -> [ok |-> FALSE, exp |-> 0, scope |-> ""]

AccessTokens == {Undef, "", "J1", "J2", "JD", "JX", "JN", "JBAD"}

\* isSessionDeactivated: "true" / "false", or "throws" when jwtDecode throws.
isSessionDeactivated(accessJwt) ==
    IF Truthy(accessJwt)
    THEN LET sessData == jwtDecode(accessJwt)
         IN  IF ~sessData.ok THEN "throws"
             ELSE IF sessData.scope # "" /\ sessData.scope = "com.atproto.deactivated"
                  THEN "true" ELSE "false"
    ELSE "false"

\* Mutant of canReusePrevSession: the expiry comparison is the wrong way round.
canReusePrevSessionFlipped(account) ==
    IF Truthy(account.accessJwt)
    THEN LET decoded == jwtDecode(account.accessJwt)
         IN  IF ~decoded.ok THEN FALSE
             ELSE IF decoded.exp # 0
                  THEN DateNow >= decoded.exp * 1000
                  ELSE FALSE
    ELSE FALSE

\* The try block of initSession that decides whether the cached credential
\* can be used without a network round trip.
canReusePrevSession(account) ==
    IF Truthy(account.accessJwt)
    THEN LET decoded == jwtDecode(account.accessJwt)
         IN  IF ~decoded.ok THEN FALSE              \* caught, logged
             ELSE IF decoded.exp # 0
                  THEN ~(DateNow >= decoded.exp * 1000)
                  ELSE FALSE
    ELSE FALSE

\* IS_TEST_USER of lib/constants: the account is an internal test identity.
IS_TEST_USER(handle) == handle = "bob.test"


(***************************************************************************)
(* Account conversions                                                     *)
(***************************************************************************)

\* Mutant of agentToSessionAccount: the refresh credential is not copied.
agentToSessionAccountNoRefresh(a) ==
    IF ~Present(a.session) THEN NoAccount
    ELSE [did        |-> a.session.did,
          handle     |-> a.session.handle,
          refreshJwt |-> Undef,
          accessJwt  |-> a.session.accessJwt]

\* agentToSessionAccount: the account of a client, undefined without a session.
agentToSessionAccount(a) ==
    IF ~Present(a.session) THEN NoAccount
    ELSE [did        |-> a.session.did,
          handle     |-> a.session.handle,
          refreshJwt |-> a.session.refreshJwt,
          accessJwt  |-> a.session.accessJwt]

\* Mutant of sessionAccountToAgentSession: the refresh credential is not
\* carried over to the client's session.
sessionAccountToAgentSessionNoRefresh(account) ==
    [did        |-> account.did,
     handle     |-> account.handle,
     accessJwt  |-> IF Truthy(account.accessJwt) THEN account.accessJwt ELSE "",
     refreshJwt |-> ""]

\* sessionAccountToAgentSession: absent credentials become empty strings.
sessionAccountToAgentSession(account) ==
    [did        |-> account.did,
     handle     |-> account.handle,
     accessJwt  |-> IF Truthy(account.accessJwt) THEN account.accessJwt ELSE "",
     refreshJwt |-> IF Truthy(account.refreshJwt) THEN account.refreshJwt ELSE ""]

\* prevSession of initSession.
prevSession(account) ==
    [account EXCEPT !.accessJwt  = IF Truthy(account.accessJwt) THEN account.accessJwt ELSE "",
                    !.refreshJwt = IF Truthy(account.refreshJwt) THEN account.refreshJwt ELSE ""]

\* The unauthenticated client.
PUBLIC_BSKY_AGENT == [session |-> NoAccount]

\* refreshedAccount of persistSession: built from the event's session, falling
\* back to the account the handler was created for.
refreshedAccount(account, session) ==
    [did        |-> IF Present(session) /\ Truthy(session.did) THEN session.did ELSE account.did,
     handle     |-> IF Present(session) /\ Truthy(session.handle) THEN session.handle ELSE account.handle,
     refreshJwt |-> IF Present(session) THEN session.refreshJwt ELSE Undef,
     accessJwt  |-> IF Present(session) THEN session.accessJwt ELSE Undef]

(***************************************************************************)
(* Roster updates (the updater functions handed to setAccounts)            *)
(***************************************************************************)

\* accounts.filter(a => a.did !== did)
WithoutDid(accts, did) == SelectSeq(accts, LAMBDA a : a.did # did)

\* Mutants of upsertAccount: the filter is forgotten; the filter keeps the
\* entries it should drop; the rest of the roster is dropped.
upsertAccountNoFilter(accts, account) == <<account>> \o accts

upsertAccountInvertedFilter(accts, account) ==
    <<account>> \o SelectSeq(accts, LAMBDA a : a.did = account.did)

upsertAccountAlone(accts, account) == <<account>>

upsertAccount(accts, account) == <<account>> \o WithoutDid(accts, account.did)

\* Mutant of logoutAccounts: the refresh credential survives.
logoutAccountsKeepsRefresh(accts) ==
    [k \in 1..Len(accts) |-> [accts[k] EXCEPT !.accessJwt = Undef]]

\* The map of logout: every entry loses both credentials.
logoutAccounts(accts) ==
    [k \in 1..Len(accts) |-> [accts[k] EXCEPT !.accessJwt = Undef, !.refreshJwt = Undef]]

\* Mutant of removeFromAccounts: the most recent entry is dropped, whichever
\* account was named.
removeFromAccountsFirst(accts, account) == Tail(accts)

\* removeAccount: setAccounts(accounts => accounts.filter(a => a.did !== account.did)).
removeFromAccounts(accts, account) == WithoutDid(accts, account.did)

(***************************************************************************)
(* State                                                                   *)
(***************************************************************************)
VARIABLES
    accounts,             \* [instance -> roster]        React state `accounts`
    agent,                \* [instance -> client]        React state `agent`
    isInitialLoad,        \* [instance -> BOOLEAN]
    isSwitchingAccounts,  \* [instance -> BOOLEAN]
    isDirty,              \* [instance -> BOOLEAN]       the ref isDirty.current
    appLabelers,          \* [instance -> label source]  BskyAgent.configure({appLabelers})
    clients,              \* [instance -> set of dids]   clients created with a persistSession handler
    tasks,                \* [instance -> [slot -> pending asynchronous operation]]
    notified,             \* [instance -> BOOLEAN]       an onUpdate notification is on its way
    persisted,            \* the 'session' snapshot of the shared store
    steps,                \* operations, events and external writes so far
    last                  \* the most recent step (what it was, what it returned)

vars == <<accounts, agent, isInitialLoad, isSwitchingAccounts, isDirty, appLabelers,
          clients, tasks, notified, persisted, steps, last>>

\* The memo currentAccount: derived from the active client.
currentAccount(i) == agentToSessionAccount(agent[i])

\* Mutant of hasSession: a session is assumed while the roster holds a credential.
hasSessionFromRoster(i) ==
    \E k \in 1..Len(accounts[i]) :
        accounts[i][k].accessJwt \notin {Undef, ""} \/ accounts[i][k].refreshJwt \notin {Undef, ""}

\* stateContext.hasSession: Boolean(currentAccount).
hasSession(i) == Present(currentAccount(i))

BSKY_LABELER_DID == "did:plc:labeler"
TEST_LABELER_DID == "did:plc:mod-authority"

IdleTask == [op |-> "idle", account |-> NoAccount, pc |-> "-", reuse |-> FALSE,
             net |-> 0, tries |-> 0, profile |-> "none"]

Idx(accts, did) ==
    IF \E k \in 1..Len(accts) : accts[k].did = did
    THEN CHOOSE k \in 1..Len(accts) : accts[k].did = did
    ELSE 0

HasCredential(a) == Truthy(a.accessJwt) \/ Truthy(a.refreshJwt)

\* The branches that hand setAgent a client object React has not seen: the
\* new BskyAgent of initSession (reuse and resume), of login and of
\* createAccount, and the agent.clone() of refreshSession and of the
\* reconciliation's credential splice.  setAgent(PUBLIC_BSKY_AGENT) publishes
\* the shared public client, not a new one.
FreshClientPaths ==
    {"reuse", "resumed", "installed", "installed-profile-failed", "refreshed", "splice"}

\* The record of a step: operation, the account id (or token) it concerned, the branch taken,
\* whether a failure reached the caller, the network calls the finished
\* operation made on its client, the session-dropped notifications the step
\* emitted, whether it published a new client object, and three facts about
\* the state it started from.
Event(i, op, arg, path, threw, net) ==
    [inst |-> i, op |-> op, arg |-> arg, path |-> path, threw |-> threw, net |-> net,
     dropped    |-> 0,
     published  |-> path \in FreshClientPaths,
     prevCur    |-> currentAccount(i).did,
     prevPos    |-> Idx(accounts[i], arg),
     prevTokens |-> Cardinality({k \in 1..Len(accounts[i]) : HasCredential(accounts[i][k])})]

(***************************************************************************)
(* Initial state: what the store held when the window opened               *)
(***************************************************************************)
InitialSnapshots ==
    { [accounts |-> <<>>, currentAccount |-> NoAccount],
      [accounts |-> <<Account(DidA, "J1", "R1"), Account(DidB, "JX", "R1")>>,
       currentAccount |-> Account(DidA, "J1", "R1")],
      [accounts |-> <<Account(DidA, "JBAD", "R1"), Account(DidB, "JN", "R2")>>,
       currentAccount |-> NoAccount] }

Init ==
    /\ persisted \in InitialSnapshots
    /\ accounts = [i \in Instances |-> persisted.accounts]
    /\ agent = [i \in Instances |-> PUBLIC_BSKY_AGENT]
    /\ isInitialLoad = [i \in Instances |-> TRUE]
    /\ isSwitchingAccounts = [i \in Instances |-> FALSE]
    /\ isDirty = [i \in Instances |-> FALSE]
    /\ appLabelers = [i \in Instances |-> BSKY_LABELER_DID]
    /\ clients = [i \in Instances |-> {}]
    /\ tasks = [i \in Instances |-> [s \in Slots |-> IdleTask]]
    /\ notified = [i \in Instances |-> FALSE]
    /\ steps = 0
    /\ last = [inst |-> 0, op |-> "init", arg |-> NoDid, path |-> "-", threw |-> FALSE,
               net |-> 0, dropped |-> 0, published |-> FALSE, prevCur |-> NoDid,
               prevPos |-> 0, prevTokens |-> 0]

(***************************************************************************)
(* Render and persistence effect                                           *)
(*                                                                         *)
(* Commit(i, accts, accountsSet, ag, agentSet, dirty, note) ends a handler *)
(* of instance i: accts and ag are the roster and client after its state   *)
(* updates, accountsSet / agentSet tell whether setAccounts / setAgent     *)
(* were called, dirty whether persistNextUpdate was.  The effect on        *)
(* [accounts, currentAccount] runs when one of them changed identity:      *)
(* setAccounts always installs a new array; setAgent changes               *)
(* currentAccount unless the public client replaces the public client.     *)
(* When the effect runs with the dirty flag set it clears the flag and     *)
(* writes the snapshot, which notifies the other instances.  note is the   *)
(* notification state the handler itself leaves.                           *)
(***************************************************************************)
DepsChanged(i, accountsSet, ag, agentSet) ==
    \/ accountsSet
    \/ agentSet /\ ~(ag = PUBLIC_BSKY_AGENT /\ agent[i] = PUBLIC_BSKY_AGENT)

\* Mutant of Commit: the effect has no dirty flag to test and writes the
\* snapshot whenever the roster or the current account changed.
CommitWithoutDirtyFlag(i, accts, accountsSet, ag, agentSet, dirty, note) ==
    LET flush == DepsChanged(i, accountsSet, ag, agentSet)
    IN  /\ accounts' = [accounts EXCEPT ![i] = accts]
        /\ agent' = [agent EXCEPT ![i] = ag]
        /\ isDirty' = [isDirty EXCEPT ![i] = IF flush THEN FALSE ELSE (isDirty[i] \/ dirty)]
        /\ persisted' = IF flush
                        THEN [accounts |-> accts, currentAccount |-> agentToSessionAccount(ag)]
                        ELSE persisted
        /\ notified' = IF flush
                       THEN [j \in Instances |-> IF j = i THEN note[j] ELSE TRUE]
                       ELSE note

\* Mutant of Commit: the effect writes the current account of the render
\* before the handler's setAgent, next to the roster after its setAccounts.
CommitStaleCurrentAccount(i, accts, accountsSet, ag, agentSet, dirty, note) ==
    LET flush == DepsChanged(i, accountsSet, ag, agentSet) /\ (isDirty[i] \/ dirty)
    IN  /\ accounts' = [accounts EXCEPT ![i] = accts]
        /\ agent' = [agent EXCEPT ![i] = ag]
        /\ isDirty' = [isDirty EXCEPT ![i] = IF flush THEN FALSE ELSE (isDirty[i] \/ dirty)]
        /\ persisted' = IF flush
                        THEN [accounts |-> accts, currentAccount |-> agentToSessionAccount(agent[i])]
                        ELSE persisted
        /\ notified' = IF flush
                       THEN [j \in Instances |-> IF j = i THEN note[j] ELSE TRUE]
                       ELSE note

Commit(i, accts, accountsSet, ag, agentSet, dirty, note) ==
    LET flush == DepsChanged(i, accountsSet, ag, agentSet) /\ (isDirty[i] \/ dirty)
    IN  /\ accounts' = [accounts EXCEPT ![i] = accts]
        /\ agent' = [agent EXCEPT ![i] = ag]
        /\ isDirty' = [isDirty EXCEPT ![i] = IF flush THEN FALSE ELSE (isDirty[i] \/ dirty)]
        /\ persisted' = IF flush
                        THEN [accounts |-> accts, currentAccount |-> agentToSessionAccount(ag)]
                        ELSE persisted
        /\ notified' = IF flush
                       THEN [j \in Instances |-> IF j = i THEN note[j] ELSE TRUE]
                       ELSE note

Budget == steps < MaxSteps

(***************************************************************************)
(* Synchronous operations                                                  *)
(***************************************************************************)

\* Mutant of ClearCurrentAccount: it wipes the credentials as logout does.
ClearCurrentAccountWipes(i) ==
    /\ Budget
    /\ Commit(i, logoutAccounts(accounts[i]), TRUE, PUBLIC_BSKY_AGENT, TRUE, TRUE, notified)
    /\ appLabelers' = [appLabelers EXCEPT ![i] = BSKY_LABELER_DID]
    /\ steps' = steps + 1
    /\ last' = Event(i, "clearCurrentAccount", NoDid, "-", FALSE, 0)
    /\ UNCHANGED <<isInitialLoad, isSwitchingAccounts, clients, tasks>>

\* clearCurrentAccount: persistNextUpdate(); setAgent(PUBLIC_BSKY_AGENT);
\* BskyAgent.configure({appLabelers: [BSKY_LABELER_DID]}).
ClearCurrentAccount(i) ==
    /\ Budget
    /\ Commit(i, accounts[i], FALSE, PUBLIC_BSKY_AGENT, TRUE, TRUE, notified)
    /\ appLabelers' = [appLabelers EXCEPT ![i] = BSKY_LABELER_DID]
    /\ steps' = steps + 1
    /\ last' = Event(i, "clearCurrentAccount", NoDid, "-", FALSE, 0)
    /\ UNCHANGED <<isInitialLoad, isSwitchingAccounts, clients, tasks>>

\* logout: clearCurrentAccount(); persistNextUpdate(); setAccounts(map ...).
\* The function is async but awaits nothing.
Logout(i) ==
    /\ Budget
    /\ Commit(i, logoutAccounts(accounts[i]), TRUE, PUBLIC_BSKY_AGENT, TRUE, TRUE, notified)
    /\ appLabelers' = [appLabelers EXCEPT ![i] = BSKY_LABELER_DID]
    /\ steps' = steps + 1
    /\ last' = Event(i, "logout", NoDid, "-", FALSE, 0)
    /\ UNCHANGED <<isInitialLoad, isSwitchingAccounts, clients, tasks>>

\* removeAccount(account), for an account picked from the roster.
RemoveAccount(i, k) ==
    /\ Budget
    /\ k \in 1..Len(accounts[i])
    /\ Commit(i, removeFromAccounts(accounts[i], accounts[i][k]), TRUE,
              agent[i], FALSE, TRUE, notified)
    /\ steps' = steps + 1
    /\ last' = Event(i, "removeAccount", accounts[i][k].did, "-", FALSE, 0)
    /\ UNCHANGED <<isInitialLoad, isSwitchingAccounts, appLabelers, clients, tasks>>

(***************************************************************************)
(* The credential-refresh callback                                         *)
(***************************************************************************)

\* The events of the protocol client; "update" is a successful refresh.
Events == {"update", "expired", "create-failed", "network-error"}

\* The session the client hands over with an event.
EventSessions(did, event) ==
    IF event = "update" THEN ServerSessions(did) ELSE {NoAccount}

\* Mutant of emitSessionDroppedCalls: the handler and its callback both notify.
emitSessionDroppedTwice(event) ==
    IF event = "expired" \/ event = "create-failed" THEN 2 ELSE 0

\* persistSession: `if (expired) emitSessionDropped()`.
emitSessionDroppedCalls(event) ==
    IF event = "expired" \/ event = "create-failed" THEN 1 ELSE 0

\* persistSession(event, session) of the handler created for `did`, with the
\* callbacks every caller of createPersistSessionHandler passes:
\*   persistSessionCallback = upsertAccount(refreshedAccount);
\*                            if (expired) clearCurrentAccount()
\*   networkErrorCallback   = clearCurrentAccount
PersistSession(i, did, event, session) ==
    LET account == Account(did, Undef, Undef)
        expired == event = "expired" \/ event = "create-failed"
        refreshed == refreshedAccount(account, session)
    IN  /\ Budget
        /\ did \in clients[i]
        /\ event \in Events
        /\ session \in EventSessions(did, event)
        /\ IF event = "network-error"
           THEN /\ Commit(i, accounts[i], FALSE, PUBLIC_BSKY_AGENT, TRUE, TRUE, notified)
                /\ appLabelers' = [appLabelers EXCEPT ![i] = BSKY_LABELER_DID]
           ELSE /\ Commit(i, upsertAccount(accounts[i], refreshed), TRUE,
                          IF expired THEN PUBLIC_BSKY_AGENT ELSE agent[i], expired,
                          TRUE, notified)
                /\ appLabelers' = [appLabelers EXCEPT ![i] =
                                      IF expired THEN BSKY_LABELER_DID ELSE @]
        /\ steps' = steps + 1
        /\ last' = [Event(i, "persistSession", did, event, FALSE, 0)
                        EXCEPT !.dropped = IF event = "network-error" THEN 0
                                           ELSE emitSessionDroppedCalls(event)]
        /\ UNCHANGED <<isInitialLoad, isSwitchingAccounts, clients, tasks>>

\* A call of the exported isSessionDeactivated with any token.  The function
\* reads no state, so its calls are explored from the initial states.
IsSessionDeactivatedCall(i, token) ==
    /\ Budget
    /\ token \in AccessTokens
    /\ steps = 0
    /\ steps' = steps + 1
    /\ last' = Event(i, "isSessionDeactivated", token, isSessionDeactivated(token),
                     isSessionDeactivated(token) = "throws", 0)
    /\ UNCHANGED <<accounts, agent, isInitialLoad, isSwitchingAccounts, isDirty,
                   appLabelers, clients, tasks, notified, persisted>>

(***************************************************************************)
(* Moderation configuration                                                *)
(***************************************************************************)

\* configureModeration up to its first await: a test account issues
\* agent.resolveHandle (a network call on the client); any other account
\* installs the default label source and then reads the local labeler cache.
configureModerationCalls(account) == IF IS_TEST_USER(account.handle) THEN 1 ELSE 0

configureModerationBegin(i, account) ==
    IF IS_TEST_USER(account.handle)
    THEN appLabelers
    ELSE [appLabelers EXCEPT ![i] = BSKY_LABELER_DID]

\* configureModeration after its await: a resolved test authority becomes the
\* only label source.
configureModerationEnd(labelers, i, account, resolved) ==
    IF IS_TEST_USER(account.handle) /\ resolved
    THEN [labelers EXCEPT ![i] = TEST_LABELER_DID]
    ELSE labelers

\* The outcomes of the handle resolution that matter: for an account that is
\* not a test account nothing is resolved.
Resolutions(account) == IF IS_TEST_USER(account.handle) THEN BOOLEAN ELSE {FALSE}

(***************************************************************************)
(* Asynchronous operations                                                 *)
(***************************************************************************)
InitOps == {"initSession", "selectAccount", "resumeSession"}

Idle(i, s) == tasks[i][s].op = "idle"

Roster(i) == {accounts[i][k] : k \in 1..Len(accounts[i])}

\* Mutant of Finish: resumeSession clears isInitialLoad in its try block only,
\* after an initSession that did not fall back to the sign-out.
FinishWithoutFinally(i, s, path, threw, net) ==
    LET t == tasks[i][s]
    IN  /\ tasks' = [tasks EXCEPT ![i][s] = IdleTask]
        /\ isSwitchingAccounts' = [isSwitchingAccounts EXCEPT ![i] =
                                      IF t.op = "selectAccount" THEN FALSE ELSE @]
        /\ isInitialLoad' = [isInitialLoad EXCEPT ![i] =
                                IF t.op = "resumeSession" /\ path # "resumeFailed"
                                THEN FALSE ELSE @]
        /\ last' = Event(i, t.op, t.account.did, path, threw, net)
        /\ UNCHANGED steps

\* The end of an asynchronous operation: selectAccount resets
\* isSwitchingAccounts on both paths, resumeSession clears isInitialLoad in
\* its finally block.
Finish(i, s, path, threw, net) ==
    LET t == tasks[i][s]
    IN  /\ tasks' = [tasks EXCEPT ![i][s] = IdleTask]
        /\ isSwitchingAccounts' = [isSwitchingAccounts EXCEPT ![i] =
                                      IF t.op = "selectAccount" THEN FALSE ELSE @]
        /\ isInitialLoad' = [isInitialLoad EXCEPT ![i] =
                                IF t.op = "resumeSession" THEN FALSE ELSE @]
        /\ last' = Event(i, t.op, t.account.did, path, threw, net)
        /\ UNCHANGED steps

\* resumeSession is the cold-start entry point: the application calls it once,
\* when the Provider has mounted.
ColdStart(i) == isInitialLoad[i] /\ steps = 0 /\ \A s \in Slots : Idle(i, s)

\* initSession(account) up to `await configureModeration`: the client and its
\* handler are created, the cached credential is inspected.  selectAccount
\* sets isSwitchingAccounts first; resumeSession only wraps the call.
InitSessionStart(i, s, op, account) ==
    /\ IF op = "resumeSession" THEN ColdStart(i) ELSE Budget
    /\ op \in InitOps
    /\ account \in Roster(i)
    /\ Idle(i, s)
    /\ tasks' = [tasks EXCEPT ![i][s] =
                    [op |-> op, account |-> account, pc |-> "moderation",
                     reuse |-> canReusePrevSession(account),
                     net |-> configureModerationCalls(account), tries |-> 0, profile |-> "none"]]
    /\ clients' = [clients EXCEPT ![i] = @ \cup {account.did}]
    /\ isSwitchingAccounts' = [isSwitchingAccounts EXCEPT ![i] =
                                  IF op = "selectAccount" THEN TRUE ELSE @]
    /\ appLabelers' = configureModerationBegin(i, account)
    /\ steps' = IF op = "resumeSession" THEN steps ELSE steps + 1
    /\ last' = Event(i, op, account.did, "started", FALSE, 0)
    /\ UNCHANGED <<accounts, agent, isInitialLoad, isDirty, notified, persisted>>

\* resumeSession() without an account.
ResumeSessionNoAccount(i) ==
    /\ ColdStart(i)
    /\ isInitialLoad' = [isInitialLoad EXCEPT ![i] = FALSE]
    /\ UNCHANGED steps
    /\ last' = Event(i, "resumeSession", NoDid, "no-account", FALSE, 0)
    /\ UNCHANGED <<accounts, agent, isSwitchingAccounts, isDirty, appLabelers, clients,
                   tasks, notified, persisted>>

\* Mutant of InitSessionReuse: the new client is installed only if no call
\* installed one before; a call that completes later leaves the client of the
\* earlier call in place.
InitSessionReuseFirstWins(i, s, resolved) ==
    LET t == tasks[i][s]
    IN  /\ t.op \in InitOps \cup {"onUpdate"}
        /\ t.pc = "moderation"
        /\ t.reuse
        /\ resolved \in Resolutions(t.account)
        /\ Commit(i, upsertAccount(accounts[i], t.account), TRUE,
                  IF hasSession(i) THEN agent[i] ELSE [session |-> prevSession(t.account)],
                  TRUE, TRUE, notified)
        /\ appLabelers' = configureModerationEnd(appLabelers, i, t.account, resolved)
        /\ Finish(i, s, "reuse", FALSE, t.net)
        /\ UNCHANGED clients

\* initSession after configureModeration, canReusePrevSession:
\* agent.session = prevSession; setAgent(agent); upsertAccount(account).
InitSessionReuse(i, s, resolved) ==
    LET t == tasks[i][s]
    IN  /\ t.op \in InitOps \cup {"onUpdate"}
        /\ t.pc = "moderation"
        /\ t.reuse
        /\ resolved \in Resolutions(t.account)
        /\ Commit(i, upsertAccount(accounts[i], t.account), TRUE,
                  [session |-> prevSession(t.account)], TRUE, TRUE, notified)
        /\ appLabelers' = configureModerationEnd(appLabelers, i, t.account, resolved)
        /\ Finish(i, s, "reuse", FALSE, t.net)
        /\ UNCHANGED clients

\* initSession after configureModeration, no reusable credential: the first
\* agent.resumeSession(prevSession) goes out.
InitSessionResumeCall(i, s, resolved) ==
    LET t == tasks[i][s]
    IN  /\ t.op \in InitOps \cup {"onUpdate"}
        /\ t.pc = "moderation"
        /\ ~t.reuse
        /\ resolved \in Resolutions(t.account)
        /\ tasks' = [tasks EXCEPT ![i][s] = [t EXCEPT !.pc = "resume", !.tries = 1,
                                                     !.net = t.net + 1]]
        /\ appLabelers' = configureModerationEnd(appLabelers, i, t.account, resolved)
        /\ UNCHANGED <<accounts, agent, isInitialLoad, isSwitchingAccounts, isDirty,
                       clients, notified, persisted, steps, last>>

\* The resume call succeeded: the client holds the session the service
\* confirmed and has called persistSession with it (upsert of the refreshed
\* account); then setAgent(agent).
InitSessionResumeOk(i, s, session) ==
    LET t == tasks[i][s]
    IN  /\ t.pc = "resume"
        /\ session \in ServerSessions(t.account.did)
        /\ Commit(i, upsertAccount(accounts[i], refreshedAccount(t.account, session)), TRUE,
                  [session |-> session], TRUE, TRUE, notified)
        /\ Finish(i, s, "resumed", FALSE, t.net)
        /\ UNCHANGED <<appLabelers, clients>>

\* networkRetry(retries, fn) of lib/async/retry: after a transient failure fn
\* is called again while retries are left.
networkRetryAgain(retries, tries, transient) == transient /\ tries <= retries

\* The resume call failed on the network and is retried.
InitSessionResumeRetry(i, s) ==
    LET t == tasks[i][s]
    IN  /\ t.pc = "resume"
        /\ networkRetryAgain(1, t.tries, TRUE)
        /\ tasks' = [tasks EXCEPT ![i][s] = [t EXCEPT !.tries = t.tries + 1,
                                                     !.net = t.net + 1]]
        /\ UNCHANGED <<accounts, agent, isInitialLoad, isSwitchingAccounts, isDirty,
                       appLabelers, clients, notified, persisted, steps, last>>

\* The resume failed for good (a failure that is not transient, or a transient
\* one with no retry left): the catch block logs and calls
\* clearCurrentAccount(); initSession returns normally.
InitSessionResumeFailed(i, s, transient) ==
    LET t == tasks[i][s]
    IN  /\ t.pc = "resume"
        /\ transient \in BOOLEAN
        /\ ~networkRetryAgain(1, t.tries, transient)
        /\ Commit(i, accounts[i], FALSE, PUBLIC_BSKY_AGENT, TRUE, TRUE, notified)
        /\ appLabelers' = [appLabelers EXCEPT ![i] = BSKY_LABELER_DID]
        /\ Finish(i, s, "resumeFailed", FALSE, t.net)
        /\ UNCHANGED clients

(***************************************************************************)
(* login and createAccount                                                 *)
(***************************************************************************)
AuthOps == {"login", "createAccount"}

\* Mutant of AuthFails: the operation marks the state dirty before it awaits
\* the protocol call.
AuthFailsMarksDirty(i, op, why) ==
    /\ Budget
    /\ op \in AuthOps
    /\ why \in {"rejected", "no-session"}
    /\ isDirty' = [isDirty EXCEPT ![i] = TRUE]
    /\ steps' = steps + 1
    /\ last' = Event(i, op, NoDid, why, TRUE, 1)
    /\ UNCHANGED <<accounts, agent, isInitialLoad, isSwitchingAccounts,
                   appLabelers, clients, tasks, notified, persisted>>

\* agent.login / agent.createAccount rejected, or resolved without a session:
\* the operation throws before it touches any state.
AuthFails(i, op, why) ==
    /\ Budget
    /\ op \in AuthOps
    /\ why \in {"rejected", "no-session"}
    /\ steps' = steps + 1
    /\ last' = Event(i, op, NoDid, why, TRUE, 1)
    /\ UNCHANGED <<accounts, agent, isInitialLoad, isSwitchingAccounts, isDirty,
                   appLabelers, clients, tasks, notified, persisted>>

\* Mutant of issuesProfileInit: the profile is initialised whatever the scope.
issuesProfileInitAlways(session) == TRUE

\* Whether createAccount issues agent.upsertProfile (not awaited).
issuesProfileInit(session) == isSessionDeactivated(session.accessJwt) # "true"

\* agent.login / agent.createAccount resolved with a session: the account is
\* derived from the client and configureModeration starts.
AuthReturns(i, s, op, did, session) ==
    LET account == agentToSessionAccount([session |-> session])
        profile == IF op = "createAccount" /\ issuesProfileInit(session) THEN 1 ELSE 0
    IN  /\ Budget
        /\ op \in AuthOps
        /\ did \in Dids
        /\ session \in AuthSessions(op, did)
        /\ Idle(i, s)
        /\ tasks' = [tasks EXCEPT ![i][s] =
                        [op |-> op, account |-> account, pc |-> "moderation", reuse |-> FALSE,
                         net |-> 1 + profile + configureModerationCalls(account),
                         tries |-> 0,
                         profile |-> IF profile = 1 THEN "pending" ELSE "none"]]
        /\ appLabelers' = configureModerationBegin(i, account)
        /\ steps' = steps + 1
        /\ last' = Event(i, op, did,
                         IF profile = 1 THEN "started-profile-init" ELSE "started", FALSE, 0)
        /\ UNCHANGED <<accounts, agent, isInitialLoad, isSwitchingAccounts, isDirty,
                       clients, notified, persisted>>

\* The agent.upsertProfile call that createAccount issued and does not await
\* is rejected while createAccount awaits configureModeration: nobody
\* handles the rejection.
ProfileInitFails(i, s) ==
    LET t == tasks[i][s]
    IN  /\ t.op = "createAccount"
        /\ t.pc = "moderation"
        /\ t.profile = "pending"
        /\ tasks' = [tasks EXCEPT ![i][s] = [t EXCEPT !.profile = "failed"]]
        /\ UNCHANGED <<accounts, agent, isInitialLoad, isSwitchingAccounts, isDirty,
                       appLabelers, clients, notified, persisted, steps, last>>

\* login / createAccount after configureModeration: setPersistSessionHandler,
\* setAgent(agent), upsertAccount(account).
AuthInstalls(i, s, resolved) ==
    LET t == tasks[i][s]
    IN  /\ t.op \in AuthOps
        /\ t.pc = "moderation"
        /\ resolved \in Resolutions(t.account)
        /\ clients' = [clients EXCEPT ![i] = @ \cup {t.account.did}]
        /\ Commit(i, upsertAccount(accounts[i], t.account), TRUE,
                  [session |-> t.account], TRUE, TRUE, notified)
        /\ appLabelers' = configureModerationEnd(appLabelers, i, t.account, resolved)
        /\ Finish(i, s, IF t.profile = "failed" THEN "installed-profile-failed"
                        ELSE "installed", FALSE, t.net)

(***************************************************************************)
(* refreshSession                                                          *)
(***************************************************************************)

\* refreshSession(): agent.refreshSession() goes out on the client the
\* callback closed over, the active one.
RefreshSessionStart(i, s) ==
    /\ Budget
    /\ hasSession(i)
    /\ Idle(i, s)
    /\ tasks' = [tasks EXCEPT ![i][s] =
                    [op |-> "refreshSession", account |-> currentAccount(i), pc |-> "refresh",
                     reuse |-> FALSE, net |-> 1, tries |-> 0, profile |-> "none"]]
    /\ steps' = steps + 1
    /\ last' = Event(i, "refreshSession", currentAccount(i).did, "started", FALSE, 0)
    /\ UNCHANGED <<accounts, agent, isInitialLoad, isSwitchingAccounts, isDirty,
                   appLabelers, clients, notified, persisted>>

\* The refresh succeeded: persistNextUpdate();
\* upsertAccount(agentToSessionAccount(agent)); setAgent(agent.clone()).
RefreshSessionOk(i, s, session) ==
    LET t == tasks[i][s]
        refreshedAgent == [session |-> session]
    IN  /\ t.pc = "refresh"
        /\ session \in ServerSessions(t.account.did)
        /\ Commit(i, upsertAccount(accounts[i], agentToSessionAccount(refreshedAgent)), TRUE,
                  refreshedAgent, TRUE, TRUE, notified)
        /\ Finish(i, s, "refreshed", FALSE, t.net)
        /\ UNCHANGED <<appLabelers, clients>>

\* The refresh failed: the rejection leaves refreshSession before any update.
RefreshSessionFails(i, s) ==
    LET t == tasks[i][s]
    IN  /\ t.pc = "refresh"
        /\ Finish(i, s, "failed", TRUE, t.net)
        /\ UNCHANGED <<accounts, agent, isDirty, appLabelers, clients, notified, persisted>>

(***************************************************************************)
(* Cross-instance reconciliation                                           *)
(***************************************************************************)

\* Mutant of Reconcile: the else-if of the sign-out branch tests the
\* snapshot only where the code also requires an in-memory current account,
\* and a window that does have one is left alone.
ReconcileWithoutSignOut(snapshot, current) ==
    IF Present(snapshot.currentAccount) /\ Truthy(snapshot.currentAccount.refreshJwt)
    THEN IF snapshot.currentAccount.did # current.did THEN "switch" ELSE "splice"
    ELSE "nothing"

\* Which branch the persisted.onUpdate subscription takes for a snapshot.
Reconcile(snapshot, current) ==
    IF Present(snapshot.currentAccount) /\ Truthy(snapshot.currentAccount.refreshJwt)
    THEN IF snapshot.currentAccount.did # current.did THEN "switch" ELSE "splice"
    ELSE IF ~Present(snapshot.currentAccount) /\ Present(current) THEN "sign-out"
         ELSE "nothing"

\* The persisted.onUpdate subscription of instance i, up to its first await.
OnUpdate(i) ==
    LET ps == persisted
        branch == Reconcile(ps, currentAccount(i))
        note == [notified EXCEPT ![i] = FALSE]
    IN  /\ notified[i]
        /\ branch = "switch" => Idle(i, UpdateSlot)
        /\ Commit(i, ps.accounts, TRUE,
                  CASE branch = "splice" ->
                           [session |-> sessionAccountToAgentSession(ps.currentAccount)]
                    [] branch = "sign-out" -> PUBLIC_BSKY_AGENT
                    [] OTHER -> agent[i],
                  branch \in {"splice", "sign-out"}, branch = "sign-out", note)
        /\ tasks' = IF branch = "switch"
                    THEN [tasks EXCEPT ![i][UpdateSlot] =
                            [op |-> "onUpdate", account |-> ps.currentAccount,
                             pc |-> "moderation",
                             reuse |-> canReusePrevSession(ps.currentAccount),
                             net |-> configureModerationCalls(ps.currentAccount),
                             tries |-> 0, profile |-> "none"]]
                    ELSE tasks
        /\ clients' = IF branch = "switch"
                      THEN [clients EXCEPT ![i] = @ \cup {ps.currentAccount.did}]
                      ELSE clients
        /\ appLabelers' = CASE branch = "switch" -> configureModerationBegin(i, ps.currentAccount)
                            [] branch = "sign-out" -> [appLabelers EXCEPT ![i] = BSKY_LABELER_DID]
                            [] OTHER -> appLabelers
        /\ last' = Event(i, "onUpdate", ps.currentAccount.did, branch, FALSE, 0)
        /\ UNCHANGED <<isInitialLoad, isSwitchingAccounts, steps>>

\* What another window of the application may have written: it signed out and
\* removed every account; it runs A with refreshed credentials; it runs B
\* after A's credentials were cleared.  The current account of a snapshot is
\* the account of a client, so absent credentials show as empty strings.
PeerRosters ==
    { <<>>,
      <<Account(DidA, "J2", "R2")>>,
      <<Account(DidB, "J2", "R2"), Account(DidA, Undef, Undef)>> }

PeerCurrent(roster) ==
    {NoAccount}
      \cup {roster[k] : k \in {n \in 1..Len(roster) : Truthy(roster[n].refreshJwt)}}
      \cup {[roster[k] EXCEPT !.refreshJwt = ""] :
                k \in {n \in 1..Len(roster) : roster[n].did = DidA /\ Truthy(roster[n].accessJwt)}}

ExternalSnapshots ==
    UNION {{[accounts |-> r, currentAccount |-> c] : c \in PeerCurrent(r)} : r \in PeerRosters}

\* A write to the store by a window that is not modelled, with the
\* notification it sends.
ExternalWrite(snapshot) ==
    /\ Budget
    /\ snapshot \in ExternalSnapshots
    /\ persisted' = snapshot
    /\ notified' = [j \in Instances |-> TRUE]
    /\ steps' = steps + 1
    /\ last' = [inst |-> 0, op |-> "externalWrite", arg |-> snapshot.currentAccount.did,
                path |-> "-", threw |-> FALSE, net |-> 0, dropped |-> 0,
                published |-> FALSE, prevCur |-> NoDid,
                prevPos |-> 0, prevTokens |-> 0]
    /\ UNCHANGED <<accounts, agent, isInitialLoad, isSwitchingAccounts, isDirty,
                   appLabelers, clients, tasks>>

(***************************************************************************)
(* Specification: one window with its callers, its clients' events and the *)
(* writes of other windows                                                 *)
(***************************************************************************)
Local == {1}

\* In this specification a caller awaits one operation before it starts the next.
Sequential == {1}

Next ==
    \/ \E i \in Local : ClearCurrentAccount(i)
    \/ \E i \in Local : Logout(i)
    \/ \E i \in Local, k \in 1..2 : RemoveAccount(i, k)
    \/ \E i \in Local, did \in Dids, event \in Events :
          \E session \in EventSessions(did, event) : PersistSession(i, did, event, session)
    \/ \E i \in Local, token \in AccessTokens : IsSessionDeactivatedCall(i, token)
    \/ \E i \in Local, s \in Sequential, op \in InitOps :
          \E account \in Roster(i) : InitSessionStart(i, s, op, account)
    \/ \E i \in Local : ResumeSessionNoAccount(i)
    \/ \E i \in Local, s \in Slots, resolved \in BOOLEAN : InitSessionReuse(i, s, resolved)
    \/ \E i \in Local, s \in Slots, resolved \in BOOLEAN : InitSessionResumeCall(i, s, resolved)
    \/ \E i \in Local, s \in Slots :
          \E session \in ServerSessions(tasks[i][s].account.did) : InitSessionResumeOk(i, s, session)
    \/ \E i \in Local, s \in Slots : InitSessionResumeRetry(i, s)
    \/ \E i \in Local, s \in Slots, transient \in BOOLEAN : InitSessionResumeFailed(i, s, transient)
    \/ \E i \in Local, op \in AuthOps, why \in {"rejected", "no-session"} : AuthFails(i, op, why)
    \/ \E i \in Local, s \in Sequential, op \in AuthOps, did \in Dids :
          \E session \in AuthSessions(op, did) : AuthReturns(i, s, op, did, session)
    \/ \E i \in Local, s \in Slots : ProfileInitFails(i, s)
    \/ \E i \in Local, s \in Slots, resolved \in BOOLEAN : AuthInstalls(i, s, resolved)
    \/ \E i \in Local, s \in Sequential : RefreshSessionStart(i, s)
    \/ \E i \in Local, s \in Slots :
          \E session \in ServerSessions(tasks[i][s].account.did) : RefreshSessionOk(i, s, session)
    \/ \E i \in Local, s \in Slots : RefreshSessionFails(i, s)
    \/ \E i \in Local : OnUpdate(i)
    \/ \E snapshot \in ExternalSnapshots : ExternalWrite(snapshot)

Spec == Init /\ [][Next]_vars

(***************************************************************************)
(* Specification: two windows of the application on one store.  Users log  *)
(* in in either window; each window reconciles with the snapshots the      *)
(* other one writes.  Nobody calls removeAccount, and every session in     *)
(* the store carries a credential that initSession can reuse, so the       *)
(* resume branch of initSession does not occur.                            *)
(***************************************************************************)
NextWindows ==
    \/ \E i \in Instances, s \in Sequential, did \in Dids :
          \E session \in ServerSessions(did) : AuthReturns(i, s, "login", did, session)
    \/ \E i \in Instances, s \in Sequential, resolved \in BOOLEAN : AuthInstalls(i, s, resolved)
    \/ \E i \in Instances : OnUpdate(i)
    \/ \E i \in Instances, resolved \in BOOLEAN : InitSessionReuse(i, UpdateSlot, resolved)

SpecWindows == Init /\ [][NextWindows]_vars

(***************************************************************************)
(* Specification: two callers of one window race on selectAccount.         *)
(* selectAccount takes no lock: the second call starts while the first is   *)
(* suspended at one of initSession's awaits, and the two run to their ends  *)
(* in any order.                                                           *)
(***************************************************************************)
NextRace ==
    \/ \E i \in Local, s \in CallerSlots :
          \E account \in Roster(i) :
              /\ IF s = 1 THEN Idle(i, 2) ELSE ~Idle(i, 1)
              /\ InitSessionStart(i, s, "selectAccount", account)
    \/ \E i \in Local, s \in CallerSlots, resolved \in BOOLEAN : InitSessionReuse(i, s, resolved)
    \/ \E i \in Local, s \in CallerSlots, resolved \in BOOLEAN :
          InitSessionResumeCall(i, s, resolved)
    \/ \E i \in Local, s \in CallerSlots :
          \E session \in ServerSessions(tasks[i][s].account.did) : InitSessionResumeOk(i, s, session)
    \/ \E i \in Local, s \in CallerSlots : InitSessionResumeRetry(i, s)
    \/ \E i \in Local, s \in CallerSlots, transient \in BOOLEAN :
          InitSessionResumeFailed(i, s, transient)

SpecRace == Init /\ [][NextRace]_vars

(***************************************************************************)
(* Specification: two windows on one store and a single operation.  Each   *)
(* window may run its cold-start resumeSession; when both windows have      *)
(* come to rest one caller runs one of login, selectAccount, logout,       *)
(* clearCurrentAccount or removeAccount in one window, and after that only  *)
(* the continuations of pending work and the reconciliations of the two     *)
(* windows run.  The JavaScript event loop runs every queued continuation   *)
(* and every delivered store notification, and a network call settles, so   *)
(* the steps that need no caller are taken under weak fairness.             *)
(***************************************************************************)
WindowsAtRest == \A i \in Instances : ~notified[i] /\ \A s \in Slots : Idle(i, s)

\* The one operation is called when both windows have come to rest.
OperationMayStart == steps = 0 /\ WindowsAtRest

Unattended ==
    \/ \E i \in Instances, s \in Slots, resolved \in BOOLEAN : InitSessionReuse(i, s, resolved)
    \/ \E i \in Instances, s \in Slots, resolved \in BOOLEAN : InitSessionResumeCall(i, s, resolved)
    \/ \E i \in Instances, s \in Slots :
          \E session \in ServerSessions(tasks[i][s].account.did) : InitSessionResumeOk(i, s, session)
    \/ \E i \in Instances, s \in Slots : InitSessionResumeRetry(i, s)
    \/ \E i \in Instances, s \in Slots, transient \in BOOLEAN :
          InitSessionResumeFailed(i, s, transient)
    \/ \E i \in Instances, s \in Slots, resolved \in BOOLEAN : AuthInstalls(i, s, resolved)
    \/ \E i \in Instances : OnUpdate(i)

NextShared ==
    \/ \E i \in Instances :
          \E account \in Roster(i) : InitSessionStart(i, 1, "resumeSession", account)
    \/ \E i \in Instances, did \in Dids :
          \E session \in ServerSessions(did) :
              OperationMayStart /\ AuthReturns(i, 1, "login", did, session)
    \/ \E i \in Instances :
          \E account \in Roster(i) :
              OperationMayStart /\ InitSessionStart(i, 1, "selectAccount", account)
    \/ \E i \in Instances : OperationMayStart /\ Logout(i)
    \/ \E i \in Instances : OperationMayStart /\ ClearCurrentAccount(i)
    \/ \E i \in Instances, k \in 1..2 : OperationMayStart /\ RemoveAccount(i, k)
    \/ Unattended

SpecShared == Init /\ [][NextShared]_vars /\ WF_vars(Unattended)


(***************************************************************************)
(* Properties                                                              *)
(***************************************************************************)
DidsOf(accts) == [k \in 1..Len(accts) |-> accts[k].did]

NoCredentials(accts) ==
    \A k \in 1..Len(accts) : accts[k].accessJwt = Undef /\ accts[k].refreshJwt = Undef

\* C1. Full sign-out: a logout step leaves the roster with the same length and
\* the same account ids in the same order, leaves every entry without access
\* and without refresh credential, and makes the public client the active one.
C1_LogoutClearsEveryEntry ==
    [][\A i \in Instances : Logout(i) =>
          /\ Len(accounts'[i]) = Len(accounts[i])
          /\ DidsOf(accounts'[i]) = DidsOf(accounts[i])
          /\ NoCredentials(accounts'[i])
          /\ agent'[i] = PUBLIC_BSKY_AGENT]_vars

\* C1 is exercised: a logout ran with an account signed in and two roster
\* entries carrying credentials, and left both entries, without credentials.
C1_Witness ==
    /\ last.op = "logout"
    /\ last.prevCur # NoDid
    /\ last.prevTokens = 2
    /\ Len(accounts[last.inst]) = 2
    /\ NoCredentials(accounts[last.inst])
    /\ ~hasSession(last.inst)

\* C2. Partial sign-out: a clearCurrentAccount step leaves the roster as it
\* was (entries, order, credentials) and leaves isInitialLoad,
\* isSwitchingAccounts and the pending operations alone; the active client
\* becomes the public client, so currentAccount is absent.
C2_ClearCurrentAccountFrame ==
    [][\A i \in Instances : ClearCurrentAccount(i) =>
          /\ accounts'[i] = accounts[i]
          /\ agent'[i] = PUBLIC_BSKY_AGENT
          /\ ~Present(agentToSessionAccount(agent'[i]))
          /\ UNCHANGED <<isInitialLoad, isSwitchingAccounts, tasks, clients>>]_vars

\* C2 is exercised: clearCurrentAccount ran with an account signed in, and the
\* roster still carries credentials afterwards.
C2_Witness ==
    /\ last.op = "clearCurrentAccount"
    /\ last.prevCur # NoDid
    /\ last.prevTokens = 2
    /\ \E k \in 1..Len(accounts[last.inst]) : accounts[last.inst][k].did = last.prevCur
                                              /\ Truthy(accounts[last.inst][k].refreshJwt)
    /\ ~hasSession(last.inst)

\* What an upsert of `account` must leave: one entry with its id, at the
\* front, holding its values, and the other entries in their previous order.
UpsertedExactly(i, account) ==
    /\ Cardinality({k \in 1..Len(accounts'[i]) : accounts'[i][k].did = account.did}) = 1
    /\ accounts'[i][1] = account
    /\ WithoutDid(accounts'[i], account.did) = WithoutDid(accounts[i], account.did)

\* C3. Upsert idempotence: every upsert step (a 'refreshed' or terminal
\* credential callback, however often repeated and however stale, and the
\* upserts of initSession, login, createAccount and refreshSession), also on
\* a roster that holds the id already with other credentials, leaves exactly
\* one entry with that id, holding the upserted values, at the front, and
\* keeps the other entries in their relative order.
C3_UpsertIdempotent ==
    [][\A i \in Instances :
          /\ \A did \in Dids, event \in Events \ {"network-error"} :
                \A session \in EventSessions(did, event) :
                    (/\ last'.op = "persistSession" /\ last'.arg = did /\ last'.path = event
                     /\ PersistSession(i, did, event, session)) =>
                        UpsertedExactly(i, [did |-> did, handle |-> HandleOf(did),
                                            accessJwt |-> session.accessJwt,
                                            refreshJwt |-> session.refreshJwt])
          /\ \A s \in Slots : tasks'[i][s] # tasks[i][s] =>
                /\ (\E resolved \in BOOLEAN : InitSessionReuse(i, s, resolved))
                      => UpsertedExactly(i, tasks[i][s].account)
                /\ (\E resolved \in BOOLEAN : AuthInstalls(i, s, resolved))
                      => UpsertedExactly(i, tasks[i][s].account)
                /\ \A session \in ServerSessions(tasks[i][s].account.did) :
                      (InitSessionResumeOk(i, s, session) \/ RefreshSessionOk(i, s, session))
                          => UpsertedExactly(i, session)]_vars

\* C3 is exercised: a 'refreshed' callback upserted an id the roster already
\* held behind another entry, with credentials the cold start had not put there.
C3_Witness ==
    /\ last.op = "persistSession"
    /\ last.path = "update"
    /\ last.prevPos = 2
    /\ Len(accounts[last.inst]) = 2
    /\ accounts[last.inst][1].did = last.arg
    /\ accounts[last.inst][1].accessJwt = "J2"

DistinctIds(accts) ==
    \A k, m \in 1..Len(accts) : accts[k].did = accts[m].did => k = m

\* C4. Roster id uniqueness: in every reachable state no two entries of a
\* roster have the same id.
C4_RosterIdsUnique == \A i \in Instances : DistinctIds(accounts[i])

\* C4 is exercised: a login installed an account whose id the roster already
\* held in second place, and the roster still has two entries.
C4_Witness ==
    /\ last.op = "login"
    /\ last.path = "installed"
    /\ last.prevPos = 2
    /\ Len(accounts[last.inst]) = 2
    /\ accounts[last.inst][1].did = last.arg

\* C5. The claim as the specification states it: the credential callback
\* called with 'network-error' leaves the roster, the active client and
\* currentAccount as they were.  The code passes clearCurrentAccount as the
\* network-error callback, so the step signs the current account out.
C5_NetworkErrorKeepsSession ==
    [][\A i \in Instances, did \in Dids :
          PersistSession(i, did, "network-error", NoAccount) =>
              /\ accounts'[i] = accounts[i]
              /\ agent'[i] = agent[i]
              /\ agentToSessionAccount(agent'[i]) = currentAccount(i)]_vars

\* C6. The claim as the specification states it: when the resume of the
\* initSession inside selectAccount fails for good, selectAccount throws to
\* its caller and isSwitchingAccounts is false when it has finished.  The
\* catch block of initSession absorbs the failure, so selectAccount returns
\* normally.
C6_SelectAccountRethrows ==
    [][\A i \in Instances, s \in Slots :
          (/\ tasks[i][s].op = "selectAccount"
           /\ \E transient \in BOOLEAN : InitSessionResumeFailed(i, s, transient))
              => /\ last'.threw
                 /\ ~isSwitchingAccounts'[i]]_vars

\* C7. The claim as the specification states it: isSessionDeactivated never
\* throws, answers false for an undefined or undecodable token, and answers
\* true only for a token whose claims carry the deactivation scope.  The code
\* calls jwtDecode unguarded, so an undecodable token makes it throw.
C7_IsSessionDeactivatedTotal ==
    last.op = "isSessionDeactivated" =>
        /\ ~last.threw
        /\ (last.arg = Undef \/ ~jwtDecode(last.arg).ok) => last.path = "false"
        /\ last.path = "true" => jwtDecode(last.arg).scope = "com.atproto.deactivated"

\* An access credential that is present, decodable and not expired.
ValidCredential(account) ==
    /\ account.accessJwt \notin {Undef, ""}
    /\ jwtDecode(account.accessJwt).ok
    /\ jwtDecode(account.accessJwt).exp # 0
    /\ DateNow < jwtDecode(account.accessJwt).exp * 1000

InitSessionOps == InitOps \cup {"onUpdate"}

\* What every step of an initSession with a valid cached credential is, up to
\* the number of network calls: the operation ends there, without a resume
\* call, with the client carrying the cached credentials active and the
\* account at the front of the roster.
ReusesCachedCredential(i, s) ==
    LET t == tasks[i][s]
    IN  /\ tasks'[i][s] = IdleTask
        /\ last'.path = "reuse"
        /\ t.tries = 0
        /\ agent'[i].session.did = t.account.did
        /\ agent'[i].session.accessJwt = t.account.accessJwt
        /\ accounts'[i][1] = t.account

\* C8 (as amended). initSession(account) with an access credential that is
\* present, decodable and not expired makes no resume call; it makes no
\* network call at all for an ordinary account and exactly one, the handle
\* resolution of configureModeration, for an internal-test account; it ends
\* with the new client active with the cached credentials and the account
\* upserted at the front of the roster.
C8_ReuseCallsNetworkOnlyForTestAccounts ==
    [][\A i \in Instances, s \in Slots :
          LET t == tasks[i][s]
          IN  (t.op \in InitSessionOps /\ ValidCredential(t.account) /\ tasks'[i][s] # t)
                  => /\ ReusesCachedCredential(i, s)
                     /\ last'.net = IF IS_TEST_USER(t.account.handle) THEN 1 ELSE 0]_vars

\* C8 as the specification states it: zero network calls for every account,
\* internal-test accounts included.
C8_ReuseMakesNoNetworkCall ==
    [][\A i \in Instances, s \in Slots :
          LET t == tasks[i][s]
          IN  (t.op \in InitSessionOps /\ ValidCredential(t.account) /\ tasks'[i][s] # t)
                  => /\ ReusesCachedCredential(i, s)
                     /\ last'.net = 0]_vars

\* C8 is exercised: an initSession of the internal-test account reused its
\* cached credential and made its one network call; the account is current
\* and first in the roster.
C8_Witness ==
    /\ last.op \in InitSessionOps
    /\ last.path = "reuse"
    /\ last.arg = DidB
    /\ IS_TEST_USER(HandleOf(last.arg))
    /\ last.net = 1
    /\ currentAccount(last.inst).did = DidB
    /\ ValidCredential(currentAccount(last.inst))
    /\ accounts[last.inst][1].did = DidB

\* C9. The claim as the specification states it: initSession(account) with
\* an expired, undecodable or absent access credential never takes the reuse
\* path, makes at most two resume calls, and when the resume fails for good
\* leaves the roster as it is and does not sign out a current account other
\* than the one being initialised.  The catch block calls
\* clearCurrentAccount(), which signs out whichever account is current.
C9_ResumeFailureSignsOutOnlyThatAccount ==
    [][\A i \in Instances, s \in Slots :
          LET t == tasks[i][s]
          IN  (t.op \in InitSessionOps /\ ~ValidCredential(t.account)) =>
                  /\ ~(\E resolved \in BOOLEAN : InitSessionReuse(i, s, resolved))
                  /\ t.tries <= 2
                  /\ (\E transient \in BOOLEAN : InitSessionResumeFailed(i, s, transient))
                        => /\ accounts'[i] = accounts[i]
                           /\ currentAccount(i).did \notin {NoDid, t.account.did}
                                 => agent'[i] = agent[i]]_vars

\* C10. Every step of selectAccount(B) keeps each roster entry of another
\* account, with its credentials; and when selectAccount(B) ends with B's
\* session established (reused or resumed) currentAccount is B and
\* isSwitchingAccounts is false.
C10_SelectAccountSwitches ==
    [][\A i \in Instances, s \in Slots :
          LET t == tasks[i][s]
              u == tasks'[i][s]
              B == IF t.op = "selectAccount" THEN t.account.did ELSE u.account.did
          IN  (u # t /\ "selectAccount" \in {t.op, u.op}) =>
                  /\ \A a \in Roster(i) : a.did # B =>
                        \E k \in 1..Len(accounts'[i]) : accounts'[i][k] = a
                  /\ (u = IdleTask /\ last'.path \in {"reuse", "resumed"}) =>
                        /\ agentToSessionAccount(agent'[i]).did = B
                        /\ ~isSwitchingAccounts'[i]]_vars

\* C10 is exercised: A was current, selectAccount(B) established B's session,
\* B is current, and A is in the roster with its credentials.
C10_Witness ==
    /\ last.op = "selectAccount"
    /\ last.path \in {"reuse", "resumed"}
    /\ last.prevCur = DidA
    /\ last.arg = DidB
    /\ currentAccount(last.inst).did = DidB
    /\ ~isSwitchingAccounts[last.inst]
    /\ \E k \in 1..Len(accounts[last.inst]) :
          accounts[last.inst][k] = Account(DidA, "J1", "R1")

\* C11. A credential callback called with 'expired' or 'create-failed'
\* leaves the account as the one roster entry with its id, at the front, with
\* access and refresh credential undefined; it emits the session-dropped
\* notification exactly once; and it makes the public client the active one.
\* A callback called with a successful refresh emits no notification.
C11_ExpiredClearsAndNotifiesOnce ==
    [][\A i \in Instances, did \in Dids :
        (last'.op = "persistSession" /\ last'.arg = did /\ steps' = steps + 1) =>
          /\ \A event \in {"expired", "create-failed"} :
                PersistSession(i, did, event, NoAccount) =>
                    /\ accounts'[i][1] = Account(did, Undef, Undef)
                    /\ Cardinality({k \in 1..Len(accounts'[i]) : accounts'[i][k].did = did}) = 1
                    /\ last'.dropped = 1
                    /\ agent'[i] = PUBLIC_BSKY_AGENT
          /\ \A session \in ServerSessions(did) :
                PersistSession(i, did, "update", session) => last'.dropped = 0]_vars

\* C11 is exercised: the client of the current account reported 'expired'
\* while the roster held credentials for it; the entry is first, without
\* credentials, one notification went out and nobody is signed in.
C11_Witness ==
    /\ last.op = "persistSession"
    /\ last.path = "expired"
    /\ last.prevCur = last.arg
    /\ last.prevPos >= 1
    /\ last.prevTokens = 2
    /\ last.dropped = 1
    /\ accounts[last.inst][1] = Account(last.arg, Undef, Undef)
    /\ ~hasSession(last.inst)

\* C12. A login or createAccount whose protocol call is rejected, or
\* resolves without a session, throws to its caller and leaves the roster,
\* the active client, currentAccount, the dirty flag and the persisted
\* snapshot as they were.
C12_AuthFailureThrowsAndChangesNothing ==
    [][\A i \in Instances, op \in AuthOps, why \in {"rejected", "no-session"} :
          (last'.op = op /\ last'.path = why /\ AuthFails(i, op, why)) =>
              /\ last'.threw
              /\ accounts'[i] = accounts[i]
              /\ agent'[i] = agent[i]
              /\ agentToSessionAccount(agent'[i]) = currentAccount(i)
              /\ isDirty'[i] = isDirty[i]
              /\ persisted' = persisted]_vars

\* C12 is exercised: a createAccount resolved without a session while an
\* account was signed in; it threw, and the account is still signed in.
C12_Witness ==
    /\ last.op = "createAccount"
    /\ last.path = "no-session"
    /\ last.threw
    /\ last.prevCur # NoDid
    /\ currentAccount(last.inst).did = last.prevCur
    /\ ~isDirty[last.inst]

\* C13. A login that returned the session {did, handle, accessJwt,
\* refreshJwt} derives the account with exactly these four values, and ends
\* with that account as the first roster entry, the only one with its did,
\* and as the current account.
C13_LoginInstallsSession ==
    [][\A i \in Instances, s \in Slots :
        tasks'[i][s] # tasks[i][s] =>
          /\ \A did \in Dids : \A session \in ServerSessions(did) :
                AuthReturns(i, s, "login", did, session) =>
                    tasks'[i][s].account = [did        |-> session.did,
                                            handle     |-> session.handle,
                                            accessJwt  |-> session.accessJwt,
                                            refreshJwt |-> session.refreshJwt]
          /\ (tasks[i][s].op = "login" /\ \E resolved \in BOOLEAN : AuthInstalls(i, s, resolved))
                => /\ accounts'[i][1] = tasks[i][s].account
                   /\ Cardinality({k \in 1..Len(accounts'[i]) :
                                      accounts'[i][k].did = tasks[i][s].account.did}) = 1
                   /\ agentToSessionAccount(agent'[i]).did = tasks[i][s].account.did]_vars

\* C13 is exercised: on an empty roster a login returned A's session with J1
\* and R1; the roster is that one account and A is current.
C13_Witness ==
    /\ last.op = "login"
    /\ last.path = "installed"
    /\ last.prevTokens = 0
    /\ last.prevPos = 0
    /\ accounts[last.inst] = <<Account(DidA, "J1", "R1")>>
    /\ currentAccount(last.inst).did = DidA

\* C14. resumeSession never throws to its caller and isInitialLoad is false
\* when it has finished, in each outcome: called without an account, the
\* cached credential reused, the resume succeeded, the resume failed.
C14_ResumeSessionAbsorbsAndClearsInitialLoad ==
    [][\A i \in Instances :
          /\ ResumeSessionNoAccount(i) => (~last'.threw /\ ~isInitialLoad'[i])
          /\ \A s \in Slots :
                (tasks[i][s].op = "resumeSession" /\ tasks'[i][s] = IdleTask)
                    => /\ last'.op = "resumeSession"
                       /\ last'.path \in {"reuse", "resumed", "resumeFailed"}
                       /\ ~last'.threw
                       /\ ~isInitialLoad'[i]]_vars

\* C14 is exercised: a resumeSession whose resume failed for good has
\* finished; nothing was thrown and isInitialLoad is false.
C14_Witness ==
    /\ last.op = "resumeSession"
    /\ last.path = "resumeFailed"
    /\ ~last.threw
    /\ ~isInitialLoad[last.inst]
    /\ ~hasSession(last.inst)

\* C15. removeAccount of the k-th roster entry leaves the roster one entry
\* shorter: the entries before it stay where they are, the entries behind it
\* move up by one, no entry with the removed id is left; the active client and
\* currentAccount stay as they are, also when the removed account is current.
C15_RemoveAccountFrame ==
    [][\A i \in Instances, k \in 1..2 :
          RemoveAccount(i, k) =>
              /\ Len(accounts'[i]) = Len(accounts[i]) - 1
              /\ \A m \in 1..Len(accounts'[i]) :
                    accounts'[i][m] = IF m < k THEN accounts[i][m] ELSE accounts[i][m + 1]
              /\ \A m \in 1..Len(accounts'[i]) : accounts'[i][m].did # accounts[i][k].did
              /\ agent'[i] = agent[i]
              /\ agentToSessionAccount(agent'[i]) = currentAccount(i)]_vars

\* C15 is exercised: the current account, second of two roster entries, was
\* removed; the other entry is left and the removed account is still current.
C15_Witness ==
    /\ last.op = "removeAccount"
    /\ last.prevPos = 2
    /\ last.prevCur = last.arg
    /\ Len(accounts[last.inst]) = 1
    /\ accounts[last.inst][1].did # last.arg
    /\ currentAccount(last.inst).did = last.arg

\* C16. The claim as the specification states it: an entry leaves a roster
\* only in a removeAccount step; every other step, the reconciliation with
\* an external snapshot included, keeps an entry for each id the roster
\* held.  The reconciliation installs the roster of the snapshot in place
\* of the window's own, so an account another window never saw is dropped
\* though nobody removed it.
C16_EntriesLeaveOnlyByRemoveAccount ==
    [][\A i \in Instances :
          \/ \A a \in Roster(i) : \E k \in 1..Len(accounts'[i]) : accounts'[i][k].did = a.did
          \/ \E k \in 1..2 : RemoveAccount(i, k)]_vars

\* A window at rest: no operation pending, nothing marked for persistence,
\* no notification of the store unhandled.
Quiescent(i) ==
    /\ \A s \in Slots : Idle(i, s)
    /\ ~isDirty[i]
    /\ ~notified[i]

SnapshotConsistent(snapshot) ==
    Present(snapshot.currentAccount) =>
        \E k \in 1..Len(snapshot.accounts) :
            snapshot.accounts[k].did = snapshot.currentAccount.did

\* C17. The claim as the specification states it: once the pending
\* operations and flushes have run, the current account of the persisted
\* snapshot, when present, is among the accounts of the snapshot.
\* removeAccount of the current account writes a snapshot whose current
\* account is no longer in its roster, and nothing is left to run that
\* would repair it.
C17_SnapshotCurrentAccountInRoster ==
    (\A i \in Local : Quiescent(i)) => SnapshotConsistent(persisted)

\* C18. createAccount issues the profile initialisation exactly when the
\* access token of the new session does not carry the deactivation scope;
\* and every createAccount that obtained a session, also one whose profile
\* initialisation was rejected, ends with the account current and first in
\* the roster, without a throw.
C18_ProfileInitUnlessDeactivated ==
    [][\A i \in Instances, s \in Slots :
        tasks'[i][s] # tasks[i][s] =>
          /\ \A did \in Dids : \A session \in CreatedSessions(did) :
                AuthReturns(i, s, "createAccount", did, session) =>
                    /\ (last'.path = "started-profile-init")
                          <=> (jwtDecode(session.accessJwt).scope # "com.atproto.deactivated")
                    /\ (tasks'[i][s].profile = "pending")
                          <=> (jwtDecode(session.accessJwt).scope # "com.atproto.deactivated")
          /\ (tasks[i][s].op = "createAccount" /\ tasks'[i][s] # tasks[i][s]
                                               /\ tasks'[i][s].op # "createAccount")
                => /\ tasks'[i][s] = IdleTask
                   /\ ~last'.threw
                   /\ accounts'[i][1] = tasks[i][s].account
                   /\ agentToSessionAccount(agent'[i]).did = tasks[i][s].account.did]_vars

\* C18 is exercised: a createAccount whose profile initialisation was
\* rejected has installed its account, which is first in the roster and current.
C18_Witness ==
    /\ last.op = "createAccount"
    /\ last.path = "installed-profile-failed"
    /\ ~last.threw
    /\ accounts[last.inst][1].did = last.arg
    /\ accounts[last.inst][1].accessJwt = "J1"
    /\ currentAccount(last.inst).did = last.arg

C20_DifferentCurrentAccountSwitches ==
    [][\A i \in Instances :
          (/\ OnUpdate(i)
           /\ Present(persisted.currentAccount)
           /\ persisted.currentAccount.did # currentAccount(i).did)
              => /\ last'.path = "switch"
                 /\ tasks'[i][UpdateSlot].op = "onUpdate"
                 /\ tasks'[i][UpdateSlot].account = persisted.currentAccount]_vars

\* C21. Reconciliation, second case: the current account of the external
\* snapshot has the id of the window's current account and carries a refresh
\* credential.  The step takes the splice branch: it makes no network call
\* and starts no asynchronous work, it publishes a new client object, and the
\* current account afterwards carries the access and the refresh credential
\* of the snapshot's current account.
C21_SameAccountSplicesCredentials ==
    [][\A i \in Instances :
          (/\ last'.op = "onUpdate"
           /\ OnUpdate(i)
           /\ Present(persisted.currentAccount)
           /\ persisted.currentAccount.did = currentAccount(i).did
           /\ Truthy(persisted.currentAccount.refreshJwt))
              => /\ last'.path = "splice"
                 /\ last'.net = 0
                 /\ tasks' = tasks
                 /\ clients' = clients
                 /\ last'.published
                 /\ agentToSessionAccount(agent'[i]).did = persisted.currentAccount.did
                 /\ agentToSessionAccount(agent'[i]).accessJwt
                        = persisted.currentAccount.accessJwt
                 /\ agentToSessionAccount(agent'[i]).refreshJwt
                        = persisted.currentAccount.refreshJwt]_vars

\* C21 is exercised: the window ran A on the credentials J1/R1, another
\* window wrote A with refreshed credentials, and the reconciliation put the
\* refreshed pair on the window's client.
C21_Witness ==
    /\ last.op = "onUpdate"
    /\ last.path = "splice"
    /\ last.prevCur = DidA
    /\ last.published
    /\ persisted.currentAccount = Account(DidA, "J2", "R2")
    /\ currentAccount(last.inst).accessJwt = "J2"
    /\ currentAccount(last.inst).refreshJwt = "R2"

\* C22. Reconciliation, third case: the external snapshot has no current
\* account while the window has one.  The step signs the window out locally
\* (its active client becomes the public client) and wipes no credential
\* itself: the window's roster afterwards is the roster of the snapshot.
C22_AbsentCurrentAccountSignsOut ==
    [][\A i \in Instances :
          (/\ last'.op = "onUpdate"
           /\ OnUpdate(i)
           /\ ~Present(persisted.currentAccount)
           /\ hasSession(i))
              => /\ last'.path = "sign-out"
                 /\ agent'[i] = PUBLIC_BSKY_AGENT
                 /\ ~Present(agentToSessionAccount(agent'[i]))
                 /\ accounts'[i] = persisted.accounts
                 /\ tasks' = tasks]_vars

\* C22 is exercised: the window ran A, another window wrote a snapshot
\* without a current account whose roster still holds credentials, and the
\* reconciliation signed the window out and installed that roster whole.
C22_Witness ==
    /\ last.op = "onUpdate"
    /\ last.path = "sign-out"
    /\ last.prevCur = DidA
    /\ ~hasSession(last.inst)
    /\ accounts[last.inst] = <<Account(DidB, "J2", "R2"), Account(DidA, Undef, Undef)>>

\* The credentials a selectAccount call may put on its new client for an
\* account: the cached pair when initSession reuses it, a pair issued by the
\* server when it resumes.
OwnSessions(account) ==
    {agentToSessionAccount([session |-> prevSession(account)])}
        \cup {refreshedAccount(account, session) : session \in ServerSessions(account.did)}

\* C23. Two selectAccount calls of one window that overlap in time.  Every
\* call that completes successfully, whatever the other call has done so far,
\* publishes a client object of its own whose whole session is that of its
\* account (no field is left from the client it replaces), puts that account
\* first in the roster and keeps one entry per id; so when both calls have
\* completed and the later one succeeded, the current account is the account
\* of the call that completed last and the roster holds exactly one entry for
\* each of the two accounts.
C23_LastCompletedSelectAccountWins ==
    /\ [](\A i \in Local :
             (/\ \A s \in CallerSlots : Idle(i, s)
              /\ last.op = "selectAccount"
              /\ last.path \in {"reuse", "resumed"})
                 => /\ currentAccount(i).did = last.arg
                    /\ DistinctIds(accounts[i])
                    /\ {accounts[i][k].did : k \in 1..Len(accounts[i])} = Dids)
    /\ [][\A i \in Local, s \in CallerSlots :
             (/\ tasks'[i][s] # tasks[i][s]
              /\ tasks[i][s].op = "selectAccount"
              /\ tasks'[i][s] = IdleTask
              /\ last'.path \in {"reuse", "resumed"})
                 => /\ last'.published
                    /\ agentToSessionAccount(agent'[i]) \in OwnSessions(tasks[i][s].account)
                    /\ accounts'[i][1].did = tasks[i][s].account.did
                    /\ accounts'[i][1].accessJwt = agent'[i].session.accessJwt
                    /\ accounts'[i][1].refreshJwt = agent'[i].session.refreshJwt
                    /\ DistinctIds(accounts'[i])]_vars

\* C23 is exercised: selectAccount(A) and selectAccount(B) overlapped, A's
\* call completed first and made A current, B's call resumed over the network
\* and completed last; B is current and the roster holds B, then A.
C23_Witness ==
    /\ steps = 2
    /\ \A s \in CallerSlots : Idle(1, s)
    /\ last.op = "selectAccount"
    /\ last.arg = DidB
    /\ last.path = "resumed"
    /\ last.prevCur = DidA
    /\ currentAccount(1).did = DidB
    /\ DidsOf(accounts[1]) = <<DidB, DidA>>

\* C24. Persistence flush.  Every snapshot a window writes is the pair of
\* its roster and its current account as they are after the handler that
\* caused the write (all of the handler's roster updates are in that one
\* snapshot), and the write leaves the dirty flag cleared; a handler that
\* does not mark the next update for persistence, run with the flag clear,
\* writes nothing even when it replaces the roster; and a step that sets the
\* flag and leaves it set has written nothing.
C24_FlushWritesOneConsistentSnapshot ==
    [][/\ (persisted' # persisted /\ last'.op # "externalWrite")
            => \E i \in Local :
                  /\ persisted'.accounts = accounts'[i]
                  /\ persisted'.currentAccount = agentToSessionAccount(agent'[i])
                  /\ ~isDirty'[i]
                  /\ \A j \in Instances \ {i} : notified'[j]
       /\ \A i \in Local :
             (/\ last'.op = "onUpdate"
              /\ last'.inst = i
              /\ OnUpdate(i)
              /\ last'.path # "sign-out"
              /\ ~isDirty[i])
                 => /\ persisted' = persisted
                    /\ ~isDirty'[i]
       /\ \A i \in Local :
             (isDirty'[i] /\ ~isDirty[i]) => persisted' = persisted]_vars

\* C24 is exercised: during a resume over the network the client's
\* 'refreshed' callback upserted the account and marked the next update for
\* persistence, then initSession installed the client; the store holds one
\* snapshot with the new roster and the new current account, and the dirty
\* flag is clear.
C24_Witness ==
    /\ last.path = "resumed"
    /\ last.prevCur = DidA
    /\ currentAccount(1).did = DidB
    /\ persisted.accounts = accounts[1]
    /\ persisted.currentAccount = currentAccount(1)
    /\ accounts[1][1] = currentAccount(1)
    /\ ~isDirty[1]

\* C25. The claim as stated: a terminal or network-error credential event
\* delivered by the client that was created for account A, while another
\* account B is the current account, leaves the active client as it is, so B
\* is still the current account after the step (stated for a window with no
\* operation in flight, so A's client is one that was replaced).  In the code the handler of
\* every client calls the Provider's clearCurrentAccount, which installs the
\* public client whichever account is current.
C25_StaleClientEventKeepsCurrentAccount ==
    [][\A i \in Local, did \in Dids, event \in Events \ {"update"} :
          (/\ last'.op = "persistSession"
           /\ last'.arg = did
           /\ last'.path = event
           /\ currentAccount(i).did \notin {NoDid, did}
           /\ \A s \in Slots : Idle(i, s)
           /\ \E session \in EventSessions(did, event) : PersistSession(i, did, event, session))
              => /\ agent'[i] = agent[i]
                 /\ agentToSessionAccount(agent'[i]).did = currentAccount(i).did]_vars

\* C26. The claim as stated: once logout has completed, and as long as no
\* operation is started after it, no roster entry carries a credential and
\* there is no current account; a 'refreshed' callback of a client created
\* before the logout, or the continuation of an initSession that was in
\* flight when logout was called, puts back neither.  The step record still
\* names the logout as long as nothing was started or delivered after it,
\* so a pending operation or a client of such a state predates the logout.
\* In the code the callback upserts the refreshed credentials whatever the
\* roster holds, and the continuation installs its client and upserts its
\* account.
C26_LogoutStaysLoggedOut ==
    [][\A i \in Local :
          (/\ last.op = "logout"
           /\ last.inst = i
           /\ \/ \E s \in Slots : /\ tasks[i][s].op \in InitSessionOps
                                   /\ tasks'[i][s] # tasks[i][s]
              \/ last'.op = "persistSession" /\ last'.path = "update")
              => /\ NoCredentials(accounts'[i])
                 /\ ~Present(agentToSessionAccount(agent'[i]))]_vars

\* C27. The claim as stated: whenever the window has a current account, no
\* operation of the window is in flight and no notification of the store is
\* waiting, the roster entry with the id of the current account holds the
\* same access and refresh credential as currentAccount.  In the code
\* currentAccount is a memo of the agent state cell; the 'refreshed'
\* callback upserts the new credentials into the roster and leaves the cell
\* alone, so the memo keeps the credentials the client had when it was
\* installed.
C27_CurrentAccountMatchesRosterEntry ==
    \A i \in Local :
        (/\ hasSession(i)
         /\ \A s \in Slots : Idle(i, s)
         /\ ~notified[i])
            => \A k \in 1..Len(accounts[i]) :
                  accounts[i][k].did = currentAccount(i).did
                     => /\ accounts[i][k].accessJwt = currentAccount(i).accessJwt
                        /\ accounts[i][k].refreshJwt = currentAccount(i).refreshJwt

\* Two windows show the same session: the same roster and the same current
\* account id, or no current account in either.
SameSession ==
    /\ accounts[1] = accounts[2]
    /\ currentAccount(1).did = currentAccount(2).did

\* The operation has been called and nothing is pending in either window:
\* no continuation, no undelivered store notification.
Settled == steps >= 1 /\ WindowsAtRest

\* C28. Two windows on one store.  After one login, selectAccount, logout,
\* clearCurrentAccount or removeAccount in one window, with no caller input
\* after it, the writes and reconciliations come to an end: the windows reach
\* a state with nothing pending, no step leaves such a state, and in it both
\* windows have the same roster and the same current account id (or both
\* have none).
C28_SingleOperationSettles ==
    /\ [](Settled => SameSession)
    /\ [][~Settled]_vars
    /\ (steps >= 1) ~> Settled

\* C28 is exercised: selectAccount(B) ran in window 1 while A was current in
\* both windows, window 2 switched to B on the snapshot window 1 wrote, and
\* window 1 spliced the snapshot window 2 wrote in turn; both windows are at
\* rest on B with one roster.
C28_Witness ==
    /\ Settled
    /\ last.op = "onUpdate"
    /\ last.path = "splice"
    /\ last.inst = 1
    /\ currentAccount(1).did = DidB
    /\ currentAccount(2).did = DidB
    /\ accounts[1] = accounts[2]
    /\ DidsOf(accounts[1]) = <<DidB, DidA>>
    /\ persisted.currentAccount.did = DidB

=============================================================================
